---- MODULE Spec2Model ----
(***************************************************************************)
(* Model of presence-detector.py: the PresenceDetector polling loop, its   *)
(* device table (_clients_seen), the full-sync counter and the calls it    *)
(* makes to the Home Assistant "see" service.                              *)
(*                                                                         *)
(* One poll of run() is split at the points where the loop blocks on the   *)
(* outside world (the ubus subprocess, each HTTP call) so that the table   *)
(* as it stands in the middle of a poll is a state of the model.  pc is    *)
(* the position of run() in its loop body.                                 *)
(***************************************************************************)
EXTENDS Integers, Sequences, FiniteSets, TLC

\* ------------------------------------------------------------------ bounds
MaxOfflineAfter == 2
MaxFullSyncPolls == 2

\* ------------------------------------------------------------ input domains
Clients == {"d1", "d2"}

\* Configurations the detector is started with (Settings._settings).
MustTrackChoices == {{}, {"d1"}}
\* (do_not_track, only_track) pairs
FilterChoices == {<<{}, {}>>, <<{"d2"}, {}>>, <<{}, {"d1"}>>}
MinScoreChoices == {0, 20}

\* run: the utilization below which device_must_5g passes a client over.
MinUtilization == 15

\* Marks a hearing-map entry that has no "channel_utilization" key of its own.
NoKey == -1

LowAps == <<[ap |-> "ap1", score |-> 15]>>
HighAps == <<[ap |-> "ap1", score |-> 15], [ap |-> "ap2", score |-> 25]>>

\* What the hearing map holds for one client: the per-access-point records
\* in document order, and the value under the client's own
\* "channel_utilization" key when there is one.
Entries ==
    {[cu |-> NoKey, aps |-> LowAps],
     [cu |-> NoKey, aps |-> HighAps],
     [cu |-> 10, aps |-> HighAps],
     [cu |-> 20, aps |-> HighAps]}

Snapshots == UNION {[S -> Entries] : S \in SUBSET Clients}

\* Outcomes of `ubus call dawn get_hearing_map`: text that is not JSON,
\* JSON without the configured ssid, or JSON holding a snapshot for it.
Stdouts ==
    {[kind |-> "malformed", clients |-> <<>>],
     [kind |-> "no_ssid", clients |-> <<>>]}
    \cup {[kind |-> "ok", clients |-> s] : s \in Snapshots}

NoClient == "none"
NoProcess == [returncode |-> 0, stdout |-> "none"]

VARIABLES
    settings,           \* Settings._settings, read once at startup
    clients_seen,       \* PresenceDetector._clients_seen: client -> countdown
    full_sync_counter,  \* PresenceDetector._full_sync_counter
    pc,                 \* position of run() in the loop body
    seen_now,           \* run(): the snapshot of the current poll
    todo,               \* clients the loop at pc has still to visit
    sync_ok,            \* full_sync(): the local sync_ok
    client,             \* set_client_away(): its argument while the call is out
    process,            \* _get_all_online_clients(): the subprocess result of a poll that raised
    calls,              \* the _ha_seen calls of the current poll, in order
    poll_start,         \* what held when the current poll began: the table, retry_owed,
                        \* resync_failed and gated
    pass_ran,           \* full_sync ran its pass in the current poll
    gated,              \* clients the admission loop last turned away for a low score
    started,            \* run() has made its first call of _get_all_online_clients
    absent_polls,       \* client -> consecutive polls it has been missing from the snapshot
    retry_owed,         \* clients whose last away call failed and that are still in the table
    present_sent,       \* client -> present=true calls since its admission while seen in every poll
    resync_failed,      \* the last full-sync pass had a failing call
    released,           \* must_track clients for which an away call has succeeded
    last_poll,          \* what the poll before left: the clients whose admission call
                        \* failed, whether any call failed, and clean_polls
    clean_polls,        \* polls begun since startup or since the last pass whose calls all
                        \* succeeded, while no call has failed since; -1 once one has
    hub                 \* client -> what the last successful call told the hub about it
                        \* ("none" before any; kept for clients not in must_track)

vars == <<settings, clients_seen, full_sync_counter, pc, seen_now, todo, sync_ok,
          client, process, calls, poll_start, pass_ran, gated, started,
          absent_polls, retry_owed, present_sent, resync_failed, released,
          last_poll, clean_polls, hub>>

hist == <<poll_start, pass_ran, gated, started, absent_polls, retry_owed,
          present_sent, resync_failed, released, last_poll, clean_polls, hub>>

\* ------------------------------------------------------------------ helpers
Min(a, b) == IF a < b THEN a ELSE b

Remove(f, c) == [x \in DOMAIN f \ {c} |-> f[x]]

Put(f, c, v) == [x \in DOMAIN f \cup {c} |-> IF x = c THEN v ELSE f[x]]

\* The table and the history a poll starts from.
PollStart(seen, retry, failed, low) ==
    [seen |-> seen, retry |-> retry, resync_failed |-> failed, gated |-> low]

\* What a finished poll leaves for the next one to be compared with.
LastPoll(log, clean) ==
    [home_failed |-> {log[i].client : i \in {j \in 1..Len(log) :
                                                log[j].src = "home" /\ ~log[j].ok}},
     call_failed |-> \E i \in 1..Len(log) : ~log[i].ok,
     clean |-> clean]

\* The hub's view after _ha_seen(c, seen) has returned ok: the "see" service
\* took the location only when the call succeeded.
HubAfter(h, pinned, c, seen, ok) ==
    IF ok /\ c \notin pinned
    THEN [h EXCEPT ![c] = IF seen THEN "home" ELSE "away"]
    ELSE h

\* clean_polls after a call has returned ok.
CleanAfter(clean, ok) == IF ok THEN clean ELSE -1

Call(c, seen, ok, src) == [client |-> c, seen |-> seen, ok |-> ok, src |-> src]

\* _get_ap_highest_score: the first access point with the greatest score,
\* starting from ("", -99).
RECURSIVE HighestFrom(_, _, _)
HighestFrom(aps, i, best) ==
    IF i > Len(aps) THEN best
    ELSE HighestFrom(aps, i + 1,
                     IF aps[i].score > best.score
                     THEN [ap |-> aps[i].ap, score |-> aps[i].score]
                     ELSE best)

GetApHighestScore(aps) == HighestFrom(aps, 1, [ap |-> "", score |-> -99])

\* Variant of HaSeenCounter: a failed call leaves the counter alone.
HaSeenCounter_Keeps(counter, ok) == counter

\* _ha_seen: what a call leaves in _full_sync_counter.
HaSeenCounter(counter, ok) == IF ok THEN counter ELSE 0


\* Variant of FullSyncDue: the pass comes one poll late.
FullSyncDue_Late(counter) == counter < 0

\* full_sync: a pass is due once the decremented counter is at or below 0.
FullSyncDue(counter) == counter <= 0

\* Variant of SyncBatch: every entry of the table is re-asserted.
SyncBatch_All(seen, offline_after) == DOMAIN seen

\* full_sync: the entries a pass re-asserts, those whose countdown equals
\* offline_after.
SyncBatch(seen, offline_after) == {c \in DOMAIN seen : seen[c] = offline_after}

\* Variant of SyncCounter: the counter is reset whatever the pass returned.
SyncCounter_AlwaysReset(counter, ok, full_sync_polls) == full_sync_polls

\* full_sync: the counter once the loop is over; it is reset only when every
\* call of the pass succeeded.
SyncCounter(counter, ok, full_sync_polls) == IF ok THEN full_sync_polls ELSE counter

\* Variant of AdmitSkips: the score is not looked at.
AdmitSkips_NoScoreGate(seen, c, score, min_score) == c \in DOMAIN seen

\* run: the admission loop skips a client that is already in the table or
\* whose best score is below device_min_dawn_score.
AdmitSkips(seen, c, score, min_score) == c \in DOMAIN seen \/ score < min_score

\* run: with device_must_5g a client whose own channel_utilization is below
\* 15 is passed over by the admission loop.
UtilizationFiltered(s, entry) ==
    s.device_must_5g /\ entry.cu # NoKey /\ entry.cu < MinUtilization

\* Variant of HomeDenied: only_track is not looked at.
HomeDenied_DenyListOnly(s, c) == c \in s.do_not_track

\* set_client_home: the do_not_track / only_track early returns.
HomeDenied(s, c) ==
    \/ c \in s.do_not_track
    \/ s.only_track # {} /\ c \notin s.only_track

\* set_client_home: whether it calls _ha_seen (only for a client not in the table).
HomeNotifies(seen, c) == c \notin DOMAIN seen

\* Variant of HomeTable: the client is inserted whatever the call returned.
HomeTable_InsertsOnFailure(seen, c, ok, offline_after) == Put(seen, c, offline_after)

\* set_client_home: the table it leaves, ok being the result of _ha_seen
\* when it was called.
HomeTable(seen, c, ok, offline_after) ==
    IF c \notin DOMAIN seen
    THEN IF ok THEN Put(seen, c, offline_after) ELSE seen
    ELSE Put(seen, c, offline_after)

\* Variant of DecaySkips: a client in the snapshot is decremented as well.
DecaySkips_Never(snap, c) == FALSE

\* run: the decay loop leaves alone a client that is in the snapshot.
DecaySkips(snap, c) == c \in DOMAIN snap

\* run: `self._clients_seen[client] -= 1`.
Decremented(seen, c) == Put(seen, c, seen[c] - 1)

\* Variant of StillHome: a countdown of 0 stays in the table as well.
StillHome_AtZero(countdown) == countdown >= 0

\* run: after the decrement a countdown above 0 stays; otherwise the client
\* is marked away.
StillHome(countdown) == countdown > 0

\* Variants of AwayTable: a failed call leaves 0; the entry is deleted
\* whatever the call returned.
AwayTable_RetryAtZero(seen, c, ok) == IF ok THEN Remove(seen, c) ELSE Put(seen, c, 0)

AwayTable_DropAlways(seen, c, ok) == Remove(seen, c)

\* Variant of AwayTable: the entry is kept whatever the call returned.
AwayTable_NeverDrops(seen, c, ok) == Put(seen, c, 1)

\* set_client_away: the table it leaves, ok being the result of _ha_seen.
AwayTable(seen, c, ok) == IF ok THEN Remove(seen, c) ELSE Put(seen, c, 1)

\* run: where the loop body goes once full_sync has returned, and once the
\* admission loop is over.
DecayLoop(seen) ==
    [pc |-> IF DOMAIN seen = {} THEN "sleep" ELSE "decay", todo |-> DOMAIN seen]

AdmitLoop(snap, seen) ==
    IF DOMAIN snap = {} THEN DecayLoop(seen)
    ELSE [pc |-> "admit", todo |-> DOMAIN snap]

\* Variant of PinnedTable: nothing is put in the table at startup.
PinnedTable_None(must_track) == [m \in must_track \ must_track |-> 0]

\* __init__: every must_track client is put in the table with countdown 0.
PinnedTable(must_track) == [m \in must_track |-> 0]

\* ------------------------------------------------------------ initial state
\* PresenceDetector.__init__
Init ==
    /\ settings \in
         {[offline_after |-> oa, full_sync_polls |-> fsp,
           device_min_dawn_score |-> ms, device_must_5g |-> g,
           must_track |-> mt, do_not_track |-> f[1], only_track |-> f[2]] :
            oa \in 1..MaxOfflineAfter, fsp \in 1..MaxFullSyncPolls,
            ms \in MinScoreChoices, g \in BOOLEAN,
            mt \in MustTrackChoices, f \in FilterChoices}
    /\ full_sync_counter = settings.full_sync_polls
    /\ clients_seen = PinnedTable(settings.must_track)
    /\ pc = "poll"
    /\ seen_now = <<>>
    /\ todo = {}
    /\ sync_ok = TRUE
    /\ client = NoClient
    /\ process = NoProcess
    /\ calls = <<>>
    /\ poll_start = PollStart(clients_seen, {}, FALSE, {})
    /\ pass_ran = FALSE
    /\ gated = {}
    /\ started = FALSE
    /\ absent_polls = [c \in Clients |-> 0]
    /\ retry_owed = {}
    /\ present_sent = [c \in Clients |-> 0]
    /\ resync_failed = FALSE
    /\ released = {}
    /\ last_poll = LastPoll(<<>>, 0)
    /\ clean_polls = 0
    /\ hub = [c \in Clients |-> "none"]

\* ------------------------------------------------------------------ actions
\* run -> _get_all_online_clients.  A non-zero exit is logged and nothing
\* more; json.loads raises on text that is not JSON and response[ssid]
\* raises when the ssid is missing, and nothing in run() catches either.
GetAllOnlineClients ==
    /\ pc = "poll"
    /\ \E rc \in {0, 1}, out \in Stdouts :
         IF out.kind = "ok"
         THEN /\ seen_now' = out.clients
              /\ pc' = "full_sync"
              /\ process' = NoProcess
              /\ calls' = <<>>
              /\ poll_start' = PollStart(clients_seen, retry_owed, resync_failed, gated)
              /\ gated' = {}
              /\ clean_polls' =
                   (IF clean_polls >= 0
                    THEN Min(clean_polls + 1, settings.full_sync_polls + 1)
                    ELSE clean_polls)
              /\ absent_polls' =
                   [c \in Clients |->
                      IF c \in DOMAIN out.clients THEN 0
                      ELSE Min(absent_polls[c] + 1, settings.offline_after)]
              /\ present_sent' =
                   [c \in Clients |->
                      IF c \in DOMAIN out.clients THEN present_sent[c] ELSE 0]
         ELSE /\ pc' = "crashed"
              /\ process' = [returncode |-> rc, stdout |-> out.kind]
              /\ UNCHANGED <<seen_now, calls, poll_start, gated, absent_polls,
                             present_sent, clean_polls>>
    /\ started' = TRUE
    /\ UNCHANGED <<settings, clients_seen, full_sync_counter, todo, sync_ok, client,
                   pass_ran, retry_owed, resync_failed, released, last_poll, hub>>

\* full_sync, up to its loop: the decrement, and for an empty batch the
\* reset as well.
FullSync ==
    /\ pc = "full_sync"
    /\ LET counter == full_sync_counter - 1
           batch == SyncBatch(clients_seen, settings.offline_after)
           next == AdmitLoop(seen_now, clients_seen)
       IN  IF FullSyncDue(counter)
           THEN /\ sync_ok' = TRUE
                /\ IF batch = {}
                   THEN /\ full_sync_counter' =
                             SyncCounter(counter, TRUE, settings.full_sync_polls)
                        /\ resync_failed' = FALSE
                        /\ clean_polls' = 0
                        /\ pc' = next.pc
                        /\ todo' = next.todo
                   ELSE /\ full_sync_counter' = counter
                        /\ pc' = "full_sync_loop"
                        /\ todo' = batch
                        /\ UNCHANGED <<resync_failed, clean_polls>>
           ELSE /\ full_sync_counter' = counter
                /\ pc' = next.pc
                /\ todo' = next.todo
                /\ UNCHANGED <<sync_ok, resync_failed, clean_polls>>
    /\ pass_ran' = FullSyncDue(full_sync_counter - 1)
    /\ UNCHANGED <<settings, clients_seen, seen_now, client, process, calls,
                   poll_start, gated, started, absent_polls, retry_owed, present_sent,
                   released, last_poll, hub>>

\* full_sync: one turn of its loop, `sync_ok &= self._ha_seen(client)`; the
\* turn that ends the loop also runs the reset after it.
FullSyncClient(c, ok) ==
    /\ pc = "full_sync_loop"
    /\ c \in todo
    /\ LET all_ok == sync_ok /\ ok
           counter == HaSeenCounter(full_sync_counter, ok)
           next == AdmitLoop(seen_now, clients_seen)
       IN  /\ sync_ok' = (IF todo = {c} THEN TRUE ELSE all_ok)
           /\ calls' = Append(calls, Call(c, TRUE, ok, "full_sync"))
           /\ present_sent' =
                [present_sent EXCEPT ![c] = IF @ >= 1 THEN Min(@ + 1, 2) ELSE @]
           /\ hub' = HubAfter(hub, settings.must_track, c, TRUE, ok)
           /\ clean_polls' = (IF todo = {c} /\ all_ok THEN 0
                              ELSE CleanAfter(clean_polls, ok))
           /\ IF todo = {c}
              THEN /\ full_sync_counter' =
                        SyncCounter(counter, all_ok, settings.full_sync_polls)
                   /\ resync_failed' = ~all_ok
                   /\ pc' = next.pc
                   /\ todo' = next.todo
              ELSE /\ full_sync_counter' = counter
                   /\ todo' = todo \ {c}
                   /\ UNCHANGED <<pc, resync_failed>>
    /\ UNCHANGED <<settings, clients_seen, seen_now, client, process,
                   poll_start, pass_ran, gated, started, absent_polls, retry_owed,
                   released, last_poll>>


\* run: one turn of the admission loop, set_client_home included.
\*   - with device_must_5g the client's own "channel_utilization" is read:
\*     a KeyError when the entry has none, a skipped turn when it is < 15;
\*   - _get_ap_highest_score reads ["score"] of every value of the entry, a
\*     TypeError when one of them is the channel_utilization number;
\*   - a client in the table, or one whose best score is too low, is skipped;
\*   - set_client_home returns early for a denied client, else notifies the
\*     hub for a client not in the table and inserts it on success.
RunAdmit(c, ok) ==
    /\ pc = "admit"
    /\ c \in todo
    /\ LET entry == seen_now[c]
           raises == IF settings.device_must_5g
                     THEN entry.cu = NoKey \/ entry.cu >= MinUtilization
                     ELSE entry.cu # NoKey
           filtered == UtilizationFiltered(settings, entry)
           best == GetApHighestScore(entry.aps)
           skipped == \/ filtered
                      \/ AdmitSkips(clients_seen, c, best.score,
                                    settings.device_min_dawn_score)
                      \/ HomeDenied(settings, c)
           low == /\ ~filtered
                  /\ c \notin DOMAIN clients_seen
                  /\ AdmitSkips(clients_seen, c, best.score,
                                settings.device_min_dawn_score)
           notifies == ~skipped /\ HomeNotifies(clients_seen, c)
           seen == IF skipped THEN clients_seen
                   ELSE HomeTable(clients_seen, c, ok, settings.offline_after)
           next == DecayLoop(seen)
       IN  IF raises
           THEN /\ pc' = "crashed"
                /\ UNCHANGED <<clients_seen, full_sync_counter, todo, calls, gated,
                               present_sent, clean_polls, hub>>
           ELSE /\ clients_seen' = seen
                /\ hub' = (IF notifies
                           THEN HubAfter(hub, settings.must_track, c, TRUE, ok)
                           ELSE hub)
                /\ clean_polls' = (IF notifies THEN CleanAfter(clean_polls, ok)
                                   ELSE clean_polls)
                /\ full_sync_counter' =
                     IF notifies THEN HaSeenCounter(full_sync_counter, ok)
                     ELSE full_sync_counter
                /\ calls' = IF notifies THEN Append(calls, Call(c, TRUE, ok, "home"))
                            ELSE calls
                /\ gated' = (IF low THEN gated \cup {c} ELSE gated)
                /\ present_sent' =
                     IF notifies /\ c \in DOMAIN seen
                     THEN [present_sent EXCEPT ![c] = 1]
                     ELSE present_sent
                /\ IF todo = {c}
                   THEN pc' = next.pc /\ todo' = next.todo
                   ELSE pc' = pc /\ todo' = todo \ {c}
    /\ UNCHANGED <<settings, seen_now, sync_ok, client, process, poll_start, pass_ran,
                   started, absent_polls, retry_owed, resync_failed, released,
                   last_poll>>

\* run: one turn of the decay loop up to the call of set_client_away.
RunDecay(c) ==
    /\ pc = "decay"
    /\ c \in todo
    /\ IF DecaySkips(seen_now, c)
       THEN /\ todo' = todo \ {c}
            /\ pc' = (IF todo = {c} THEN "sleep" ELSE "decay")
            /\ UNCHANGED <<clients_seen, client>>
       ELSE LET seen == Decremented(clients_seen, c)
            IN  /\ clients_seen' = seen
                /\ IF StillHome(seen[c])
                   THEN /\ todo' = todo \ {c}
                        /\ pc' = (IF todo = {c} THEN "sleep" ELSE "decay")
                        /\ UNCHANGED client
                   ELSE /\ pc' = "set_client_away"
                        /\ client' = c
                        /\ UNCHANGED todo
    /\ UNCHANGED <<settings, full_sync_counter, seen_now, sync_ok, process, calls, hist>>

\* set_client_away: _ha_seen(client, False) returns, and the entry is
\* deleted on success or set to 1 on failure.
SetClientAway(ok) ==
    /\ pc = "set_client_away"
    /\ clients_seen' = AwayTable(clients_seen, client, ok)
    /\ full_sync_counter' = HaSeenCounter(full_sync_counter, ok)
    /\ calls' = Append(calls, Call(client, FALSE, ok, "away"))
    /\ retry_owed' = (IF ok THEN retry_owed \ {client} ELSE retry_owed \cup {client})
    /\ released' = (IF ok /\ client \in settings.must_track
                    THEN released \cup {client} ELSE released)
    /\ todo' = todo \ {client}
    /\ pc' = (IF todo = {client} THEN "sleep" ELSE "decay")
    /\ client' = NoClient
    /\ hub' = HubAfter(hub, settings.must_track, client, FALSE, ok)
    /\ clean_polls' = CleanAfter(clean_polls, ok)
    /\ UNCHANGED <<settings, seen_now, sync_ok, process, poll_start, pass_ran, gated,
                   started, absent_polls, present_sent, resync_failed, last_poll>>

\* run: time.sleep(poll_interval) returns and the loop starts over; the
\* locals of the finished poll are gone.
Sleep ==
    /\ pc = "sleep"
    /\ pc' = "poll"
    /\ seen_now' = <<>>
    /\ calls' = <<>>
    /\ poll_start' = PollStart(clients_seen, retry_owed, resync_failed, gated)
    /\ pass_ran' = FALSE
    /\ last_poll' = LastPoll(calls, clean_polls)
    /\ UNCHANGED <<settings, clients_seen, full_sync_counter, todo, sync_ok, client,
                   process, gated, started, absent_polls, retry_owed, present_sent,
                   resync_failed, released, clean_polls, hub>>

Next ==
    \/ GetAllOnlineClients
    \/ FullSync
    \/ \E c \in Clients, ok \in BOOLEAN : FullSyncClient(c, ok)
    \/ \E c \in Clients, ok \in BOOLEAN : RunAdmit(c, ok)
    \/ \E c \in Clients : RunDecay(c)
    \/ \E ok \in BOOLEAN : SetClientAway(ok)
    \/ Sleep

Spec == Init /\ [][Next]_vars

\* The configurations of the liveness check: no band steering, no allow or
\* deny list, no score gate, the longest resync period.
LiveInit ==
    /\ Init
    /\ settings.device_must_5g = FALSE
    /\ settings.do_not_track = {} /\ settings.only_track = {}
    /\ settings.device_min_dawn_score = 0
    /\ settings.full_sync_polls = MaxFullSyncPolls

\* run() is one sequential loop: the subprocess, the HTTP calls and
\* time.sleep all return, so a step that can be taken is taken (WF). That
\* the hub does not fail forever is the hypothesis of the claim: an away
\* call attempted again and again for a client succeeds at some attempt (SF).
AwaySucceeds(c) == SetClientAway(TRUE) /\ client = c

LiveSpec ==
    /\ LiveInit
    /\ [][Next]_vars
    /\ WF_vars(Next)
    /\ \A c \in Clients : SF_vars(AwaySucceeds(c))


\* =================================================================== claims
AtSleep == pc = "sleep"

\* The calls of the current poll made for client c with present = seen.
CallsOf(c, seen) ==
    {i \in 1..Len(calls) : calls[i].client = c /\ calls[i].seen = seen}

\* c is in the snapshot of the current poll and the admission loop did not
\* pass it over for its utilization.
Appears(c) ==
    c \in DOMAIN seen_now /\ ~UtilizationFiltered(settings, seen_now[c])

BestScore(c) == GetApHighestScore(seen_now[c].aps).score

\* C1 (debounce): no away notification is attempted for a device before it
\* has been missing from the snapshot for offline_after consecutive polls
\* since it was last seen.  Stated here for the devices that entered the
\* table by admission (not must_track); absent_polls counts the consecutive
\* polls, the current one included, and stops counting at offline_after.
C1_Debounce ==
    \A i \in 1..Len(calls) :
        (~calls[i].seen /\ calls[i].client \notin settings.must_track)
            => absent_polls[calls[i].client] >= settings.offline_after

\* C2 (refresh on appearance): at the end of a poll every device that was in
\* the table when the poll began and appeared in its snapshot has countdown
\* offline_after.
C2_RefreshOnAppearance ==
    AtSleep =>
        \A c \in DOMAIN poll_start.seen :
            Appears(c) =>
                /\ c \in DOMAIN clients_seen
                /\ clients_seen[c] = settings.offline_after


\* C3 (retry until success): a failed away call leaves the device in the
\* table with countdown 1; in every later poll that it is still missing from
\* the snapshot exactly one away call is made for it, and it leaves the table
\* in that poll exactly when the call succeeds.
C3_RetryUntilSuccess ==
    AtSleep =>
        /\ \A i \in 1..Len(calls) :
              (~calls[i].seen /\ ~calls[i].ok) =>
                  /\ calls[i].client \in DOMAIN clients_seen
                  /\ clients_seen[calls[i].client] = 1
        /\ \A c \in poll_start.retry :
              c \notin DOMAIN seen_now =>
                  /\ Cardinality(CallsOf(c, FALSE)) = 1
                  /\ c \notin DOMAIN clients_seen
                        <=> \E i \in CallsOf(c, FALSE) : calls[i].ok

\* A device whose away call had failed before, missing again, had its away
\* call fail once more in this poll while the other poll removed it: here
\* the poll in which the retry succeeds.
C3_Witness ==
    /\ AtSleep
    /\ \E c \in poll_start.retry :
          /\ c \notin DOMAIN seen_now
          /\ c \notin DOMAIN clients_seen
          /\ \E i \in CallsOf(c, FALSE) : calls[i].ok

\* The calls of the full-sync pass of the current poll.
SyncCalls == {i \in 1..Len(calls) : calls[i].src = "full_sync"}

\* The pass of the current poll is over and no other call has been made since.
PassJustOver ==
    /\ pass_ran
    /\ pc \in {"admit", "decay", "set_client_away", "sleep"}
    /\ SyncCalls = 1..Len(calls)

\* C4 (resync all-or-nothing): when a pass is over the counter is
\* full_sync_polls if and only if every call of the pass succeeded (none made
\* counts as success), and is 0 if one failed; and the poll after a pass with
\* a failed call runs a pass again.
C4_ResyncAllOrNothing ==
    /\ PassJustOver =>
          /\ full_sync_counter = settings.full_sync_polls
                <=> \A i \in SyncCalls : calls[i].ok
          /\ (\E i \in SyncCalls : ~calls[i].ok) => full_sync_counter = 0
    /\ (poll_start.resync_failed
          /\ pc \in {"full_sync_loop", "admit", "decay", "set_client_away", "sleep"})
          => pass_ran

\* The pass of the poll before had a failed call, and the pass of this poll,
\* of two calls, has one success and one failure.
C4_Witness ==
    /\ PassJustOver
    /\ poll_start.resync_failed
    /\ \E i, j \in SyncCalls : calls[i].ok /\ ~calls[j].ok

\* C5 (admission gating): at the end of a poll, a device that was not in the
\* table when the poll began and appeared with a best score below
\* device_min_dawn_score is not in the table and no call was made for it;
\* one that appeared with a best score at or above it, and is not denied by
\* do_not_track / only_track, had one present call made for it, and is in
\* the table with countdown offline_after when that call succeeded.
C5_AdmissionGating ==
    AtSleep =>
        \A c \in Clients \ DOMAIN poll_start.seen :
            Appears(c) =>
                IF BestScore(c) < settings.device_min_dawn_score
                THEN /\ c \notin DOMAIN clients_seen
                     /\ CallsOf(c, TRUE) = {} /\ CallsOf(c, FALSE) = {}
                ELSE ~HomeDenied(settings, c) =>
                     /\ Cardinality(CallsOf(c, TRUE)) = 1
                     /\ \A i \in CallsOf(c, TRUE) :
                           calls[i].ok =>
                               /\ c \in DOMAIN clients_seen
                               /\ clients_seen[c] = settings.offline_after

\* A device turned away for its score in the poll before is admitted in this
\* one, while another device is turned away for its score.
C5_Witness ==
    /\ AtSleep
    /\ \E c \in poll_start.gated :
          /\ c \in DOMAIN clients_seen
          /\ clients_seen[c] = settings.offline_after
          /\ \E i \in CallsOf(c, TRUE) : calls[i].ok
    /\ gated # {}

\* C6 (idempotent refresh), as claimed: a device that has been in the
\* snapshot of every poll since its admission has had at most one present
\* notification sent for it.
C6_OnePresentPerAdmission ==
    \A c \in Clients : present_sent[c] <= 1

\* C6, amended: for a device that has been in the snapshot of every poll
\* since its admission, a later poll leaves its countdown at offline_after
\* and sends no away notification and no admission notification for it; the
\* only call made for it is the present=true of a full-sync pass, at most
\* one, and only in a poll that runs a pass.
C6_OnlyResyncRepeatsPresent ==
    AtSleep =>
        \A c \in DOMAIN poll_start.seen :
            present_sent[c] >= 1 =>
                /\ c \in DOMAIN clients_seen
                /\ clients_seen[c] = settings.offline_after
                /\ CallsOf(c, FALSE) = {}
                /\ \A i \in CallsOf(c, TRUE) : calls[i].src = "full_sync"
                /\ Cardinality(CallsOf(c, TRUE)) <= (IF pass_ran THEN 1 ELSE 0)

\* A poll with no pass and a poll with one: here the second, a device seen
\* ever since its admission for which the pass sent present=true again.
C6_Witness ==
    /\ AtSleep
    /\ \E c \in DOMAIN poll_start.seen :
          /\ present_sent[c] = 2
          /\ \E i \in CallsOf(c, TRUE) : calls[i].src = "full_sync"

\* C7 (no loss of state on hub failure): an entry leaves the table only in
\* the step in which an away call for that device returns success.
C7_RemovedOnlyByAwaySuccess ==
    [][\A c \in DOMAIN clients_seen :
          c \notin DOMAIN clients_seen' =>
              calls' = Append(calls, Call(c, FALSE, TRUE, "away"))]_vars

\* A poll in which one device left the table after a successful away call
\* while the away call for another failed and that one stayed.
C7_Witness ==
    /\ AtSleep
    /\ \E c \in DOMAIN poll_start.seen \ DOMAIN clients_seen :
          \E i \in CallsOf(c, FALSE) : calls[i].ok
    /\ \E d \in DOMAIN poll_start.seen \cap DOMAIN clients_seen :
          \E i \in CallsOf(d, FALSE) : ~calls[i].ok

\* C8 (source-fetch errors are not fatal): run() is never stopped by the
\* signal-quality source failing (a non-zero exit, output that is not JSON,
\* the ssid missing from it).
C8_FetchErrorNotFatal ==
    ~(pc = "crashed" /\ process # NoProcess)

\* C9 (countdown range), as claimed: in every state every countdown of the
\* table is in [0, offline_after].
C9_CountdownInRange ==
    \A c \in DOMAIN clients_seen :
        clients_seen[c] \in 0..settings.offline_after

\* C9, amended: every countdown of the table is in [0, offline_after] except
\* that of a must_track entry that was still at 0 while the away call for it
\* is out, which is -1; so at the end of every poll all are in range.
C9_CountdownInRangeBetweenCalls ==
    \A c \in DOMAIN clients_seen :
        \/ clients_seen[c] \in 0..settings.offline_after
        \/ /\ clients_seen[c] = -1
           /\ pc = "set_client_away"
           /\ client = c
           /\ c \in settings.must_track \ released

\* The away call for a must_track entry is out and the entry holds -1, next
\* to an entry waiting for its away retry at 1.
C9_Witness ==
    /\ pc = "set_client_away"
    /\ clients_seen[client] = -1
    /\ \E d \in retry_owed : d # client /\ clients_seen[d] = 1

\* C10 (pinned devices), as claimed: every must_track identifier is in the
\* table in every state.
C10_PinnedAlwaysTracked ==
    settings.must_track \subseteq DOMAIN clients_seen

\* C10, amended: every must_track identifier is in the table with countdown
\* 0 in the initial state, and is in the table in every state in which no
\* away call for it has succeeded yet.
C10_PinnedUntilAwaySucceeds ==
    \A m \in settings.must_track :
        /\ ~started => (m \in DOMAIN clients_seen /\ clients_seen[m] = 0)
        /\ m \notin released => m \in DOMAIN clients_seen

\* A must_track device that has never been in a snapshot is still in the
\* table after an away call for it has failed.
C10_Witness ==
    /\ AtSleep
    /\ \E m \in settings.must_track :
          /\ m \notin released
          /\ m \in retry_owed
          /\ m \in DOMAIN clients_seen


\* run() is past full_sync in the current poll.
PastFullSync == pc \in {"full_sync_loop", "admit", "decay", "set_client_away", "sleep"}

\* c is listed in do_not_track, or not listed in a non-empty only_track.
Denied(c) ==
    \/ c \in settings.do_not_track
    \/ settings.only_track # {} /\ c \notin settings.only_track

\* C11 (allow/deny filter): for a device in do_not_track, or outside a
\* non-empty only_track, admission never calls the hub and never inserts it:
\* no admission call is in any poll's log, the hub has never been told
\* anything about it, and it is in the table only if __init__ put it there.
C11_DeniedNeverAdmitted ==
    \A c \in Clients :
        Denied(c) =>
            /\ \A i \in CallsOf(c, TRUE) : calls[i].src # "home"
            /\ c \in DOMAIN clients_seen => c \in settings.must_track \ released
            /\ c \notin settings.must_track => hub[c] = "none"

\* A denied device is in the snapshot with a score that passes the gate and
\* stays out of the table, in a poll that admits the other device.
C11_Witness ==
    /\ AtSleep
    /\ \E c, d \in Clients :
          /\ Denied(c)
          /\ Appears(c)
          /\ BestScore(c) >= settings.device_min_dawn_score
          /\ c \notin DOMAIN clients_seen
          /\ \E i \in CallsOf(d, TRUE) : calls[i].src = "home" /\ calls[i].ok

\* Where a call stands in the order the loop body makes them.
CallRank(src) == CASE src = "full_sync" -> 1 [] src = "home" -> 2 [] src = "away" -> 3

\* C12 (step order), as claimed: the calls of the resync pass come after the
\* admission and away calls of the poll, and the devices the pass re-asserts
\* are in the snapshot of the poll.
C12_ResyncAfterAdmissionAndDecay ==
    /\ \A i, j \in 1..Len(calls) :
          i < j => CallRank(calls[j].src) <= CallRank(calls[i].src)
                   \/ calls[i].src # "full_sync"
    /\ \A i \in SyncCalls : calls[i].client \in DOMAIN seen_now

\* C12, amended: in every poll the calls of the resync pass come first, then
\* the admission calls, then the away calls; and the devices a pass
\* re-asserts are the entries that were at offline_after when the poll began.
C12_ResyncBeforeAdmissionAndDecay ==
    /\ \A i, j \in 1..Len(calls) :
          i < j => CallRank(calls[i].src) <= CallRank(calls[j].src)
    /\ (PastFullSync /\ pc # "full_sync_loop") =>
          {calls[i].client : i \in SyncCalls} =
              (IF pass_ran
               THEN {c \in DOMAIN poll_start.seen :
                        poll_start.seen[c] = settings.offline_after}
               ELSE {})

\* A poll whose pass re-asserted a device that is missing from the snapshot,
\* before an admission call and an away call were made.
C12_Witness ==
    /\ AtSleep
    /\ \E i, j, k \in 1..Len(calls) :
          /\ i < j /\ j < k
          /\ calls[i].src = "full_sync" /\ calls[i].client \notin DOMAIN seen_now
          /\ calls[j].src = "home"
          /\ calls[k].src = "away"

\* C13 (resync eligibility): a pass sends present=true only for entries at
\* offline_after, and never for a device whose away call has failed and is
\* waiting for its retry.
C13_ResyncOnlyConfirmed ==
    \A i \in SyncCalls :
        /\ calls[i].client \in DOMAIN poll_start.seen
        /\ poll_start.seen[calls[i].client] = settings.offline_after
        /\ calls[i].client \notin poll_start.retry

\* C14 (device_must_5g): at the end of a poll a device of the snapshot with
\* utilization below 15 has been treated as missing: not admitted and not
\* notified when it was not in the table, decremented (and marked away at
\* 0) when it was.
C14_FilteredCountsAsUnseen ==
    AtSleep =>
        \A c \in DOMAIN seen_now :
            UtilizationFiltered(settings, seen_now[c]) =>
                IF c \notin DOMAIN poll_start.seen
                THEN /\ c \notin DOMAIN clients_seen
                     /\ CallsOf(c, TRUE) = {} /\ CallsOf(c, FALSE) = {}
                ELSE IF poll_start.seen[c] - 1 > 0
                     THEN /\ c \in DOMAIN clients_seen
                          /\ clients_seen[c] = poll_start.seen[c] - 1
                     ELSE CallsOf(c, FALSE) # {}

\* C15 (failed admission): at the end of a poll a device whose admission
\* call failed is not in the table; and a device whose admission call failed
\* in the poll before, in the snapshot again with a score that passes the
\* gate, has had one admission call made for it again, and is in the table
\* with countdown offline_after when that call succeeded.
C15_FailedAdmissionRetried ==
    AtSleep =>
        /\ \A i \in 1..Len(calls) :
              (calls[i].src = "home" /\ ~calls[i].ok)
                  => calls[i].client \notin DOMAIN clients_seen
        /\ \A c \in last_poll.home_failed :
              (Appears(c) /\ BestScore(c) >= settings.device_min_dawn_score) =>
                  /\ Cardinality(CallsOf(c, TRUE)) = 1
                  /\ \A i \in CallsOf(c, TRUE) :
                        /\ calls[i].src = "home"
                        /\ calls[i].ok =>
                              /\ c \in DOMAIN clients_seen
                              /\ clients_seen[c] = settings.offline_after

\* The admission call of a device failed in the poll before and succeeds in
\* this one, while the admission call of the other device fails.
C15_Witness ==
    /\ AtSleep
    /\ \E c \in last_poll.home_failed :
          /\ c \in DOMAIN clients_seen
          /\ \E i \in CallsOf(c, TRUE) : calls[i].src = "home" /\ calls[i].ok
    /\ \E i \in 1..Len(calls) : calls[i].src = "home" /\ ~calls[i].ok

\* C16 (forced resync after any failure): a poll in which a call failed ends
\* with the counter at 0, and the poll after it runs a pass.
C16_FailureForcesResync ==
    /\ (AtSleep /\ \E i \in 1..Len(calls) : ~calls[i].ok) => full_sync_counter = 0
    /\ (PastFullSync /\ last_poll.call_failed) => pass_ran

\* With full_sync_polls = 2 a pass runs in the poll right after a poll that
\* ran one, because a call of that poll failed.
C16_Witness ==
    /\ AtSleep
    /\ settings.full_sync_polls = 2
    /\ last_poll.call_failed
    /\ poll_start.resync_failed = FALSE
    /\ pass_ran
    /\ \E i \in 1..Len(calls) : calls[i].src = "away" /\ ~calls[i].ok

\* C17 (resync period and counter bounds): a poll ends with the counter in
\* [0, full_sync_polls]; and while no call has failed since startup or since
\* the last pass, the poll that runs the next pass is exactly the
\* full_sync_polls-th one counted from there.
C17_ResyncPeriod ==
    /\ AtSleep => full_sync_counter \in 0..settings.full_sync_polls
    /\ (PastFullSync /\ last_poll.clean >= 0) =>
          (pass_ran <=> last_poll.clean + 1 = settings.full_sync_polls)

\* The second poll after a pass, no call having failed, runs the next pass
\* and its calls succeed.
C17_Witness ==
    /\ AtSleep
    /\ settings.full_sync_polls >= 2
    /\ started /\ last_poll.clean = settings.full_sync_polls - 1
    /\ pass_ran
    /\ calls # <<>>
    /\ \A i \in 1..Len(calls) : calls[i].ok
    /\ full_sync_counter = settings.full_sync_polls

\* C18 (eventual away): a tracked device that stays out of every snapshot
\* the loop goes on to fetch is eventually removed from the table, the hub
\* not failing forever; a hub call that fails never stops the loop (the
\* loop stops only in the fetch or in the admission loop, before any call),
\* and an entry leaves the table only in set_client_away after a call that
\* returned ok.
C18_EventualAway ==
    /\ \A c \in Clients :
          (c \in DOMAIN clients_seen)
              ~> (c \notin DOMAIN clients_seen \/ c \in DOMAIN seen_now \/ pc = "crashed")
    /\ [][/\ (pc' = "crashed" /\ pc # "crashed") => (pc \in {"poll", "admit"} /\ calls' = calls)
          /\ \A c \in DOMAIN clients_seen \ DOMAIN clients_seen' :
                /\ pc = "set_client_away" /\ client = c
                /\ Len(calls') = Len(calls) + 1
                /\ calls'[Len(calls')] = Call(c, FALSE, TRUE, "away")]_vars

\* A device whose away call failed in an earlier poll has stayed out of the
\* snapshot and leaves the table in this poll, its away call succeeding.
C18_Witness ==
    /\ AtSleep
    /\ \E c \in poll_start.retry :
          /\ c \notin DOMAIN seen_now
          /\ c \notin DOMAIN clients_seen
          /\ last_poll.call_failed
          /\ calls # <<>> /\ calls[Len(calls)] = Call(c, FALSE, TRUE, "away")

\* C19 (table/hub agreement): at the end of a poll a device outside
\* must_track is in the table if and only if the last call that succeeded
\* for it was present=true.
C19_TableMatchesHub ==
    AtSleep =>
        \A c \in Clients \ settings.must_track :
            c \in DOMAIN clients_seen <=> hub[c] = "home"

\* One device has left the table after a successful away call; the away
\* call for the other failed, so it stays and the hub still has it home.
C19_Witness ==
    /\ AtSleep
    /\ \E c, d \in Clients \ settings.must_track :
          /\ hub[c] = "away" /\ c \notin DOMAIN clients_seen
          /\ hub[d] = "home" /\ d \in DOMAIN clients_seen
          /\ \E i \in CallsOf(d, FALSE) : ~calls[i].ok

\* C20 (pinned device first report): for a must_track device that has been
\* in the table since startup no present=true call is made; and in the first
\* poll that misses it (its countdown still 0) an away call is made.
C20_PinnedFirstReportIsAway ==
    \A m \in settings.must_track \ released :
        /\ CallsOf(m, TRUE) = {}
        /\ (AtSleep /\ poll_start.seen[m] = 0 /\ m \notin DOMAIN seen_now)
              => Cardinality(CallsOf(m, FALSE)) = 1

====
